---- MODULE Spec2Model ----
(***************************************************************************)
(* Model of psst-gui/src/ui/playback.rs: the playback progress painter     *)
(* (paint_progress, paint_progress_with_analysis) and the SeekController   *)
(* that turns mouse press/release pairs into SEEK_TO_FRACTION commands.    *)
(*                                                                         *)
(* f32/f64 values are modelled as exact rationals extended with NaN and    *)
(* the two infinities, so that a division by zero is visible in the model. *)
(* Durations are whole seconds, coordinates whole pixels.                  *)
(***************************************************************************)
EXTENDS Integers, Sequences, FiniteSets, TLC

\* ------------------------------------------------------------------ bounds
MaxX == 3
MaxWidth == 2
MaxTime == 2
MaxSegs == 2
MaxSegDur == 1
MaxLoud == 2

\* ------------------------------------------------------ program constants
PROGRESS_MIN_SEGMENT_WIDTH == 1
PROGRESS_MIN_SEGMENT_HEIGHT == 3
\* theme::grid(1.0), the fixed height of the progress widget
GRID_HEIGHT == 8

\* ------------------------------------------------------------- f64 values
Abs(i) == IF i < 0 THEN -i ELSE i

RECURSIVE GCD(_, _)
GCD(a, b) == IF b = 0 THEN a ELSE GCD(b, a % b)

NaN == [kind |-> "nan", n |-> 0, d |-> 1]
PosInf == [kind |-> "inf", n |-> 1, d |-> 1]
NegInf == [kind |-> "inf", n |-> -1, d |-> 1]

\* the finite value n/d (d # 0) in lowest terms with a positive denominator
Norm(n, d) ==
    LET g == GCD(Abs(n), Abs(d))
        s == IF d < 0 THEN -1 ELSE 1
    IN  [kind |-> "fin", n |-> (s * n) \div g, d |-> Abs(d) \div g]

FInt(i) == [kind |-> "fin", n |-> i, d |-> 1]

IsNaN(a) == a.kind = "nan"
IsFinite(a) == a.kind = "fin"
Sgn(a) == IF a.n > 0 THEN 1 ELSE IF a.n < 0 THEN -1 ELSE 0
SignedInf(s) == IF s = 0 THEN NaN ELSE IF s > 0 THEN PosInf ELSE NegInf

\* IEEE-754 division; a zero divisor is +0.0 wherever the program divides
FDiv(a, b) ==
    IF IsNaN(a) \/ IsNaN(b) THEN NaN
    ELSE IF IsFinite(a) /\ IsFinite(b)
         THEN IF b.n = 0 THEN SignedInf(Sgn(a)) ELSE Norm(a.n * b.d, a.d * b.n)
    ELSE IF IsFinite(a) THEN FInt(0)
    ELSE IF IsFinite(b) THEN SignedInf(Sgn(a) * (IF b.n < 0 THEN -1 ELSE 1))
    ELSE NaN

FMul(a, b) ==
    IF IsNaN(a) \/ IsNaN(b) THEN NaN
    ELSE IF IsFinite(a) /\ IsFinite(b) THEN Norm(a.n * b.n, a.d * b.d)
    ELSE SignedInf(Sgn(a) * Sgn(b))

FSub(a, b) ==
    IF IsNaN(a) \/ IsNaN(b) THEN NaN
    ELSE IF IsFinite(a) /\ IsFinite(b) THEN Norm(a.n * b.d - b.n * a.d, a.d * b.d)
    ELSE IF IsFinite(b) THEN a
    ELSE IF IsFinite(a) THEN SignedInf(-Sgn(b))
    ELSE IF a = b THEN NaN ELSE a

\* f64::round: to the nearest integer, halves away from zero
FRound(a) ==
    IF ~IsFinite(a) THEN a
    ELSE IF a.n >= 0 THEN FInt((2 * a.n + a.d) \div (2 * a.d))
    ELSE FInt(-((2 * (-a.n) + a.d) \div (2 * a.d)))

\* a <= b; false when either side is NaN
FLe(a, b) ==
    IF IsNaN(a) \/ IsNaN(b) THEN FALSE
    ELSE IF IsFinite(a) /\ IsFinite(b) THEN a.n * b.d <= b.n * a.d
    ELSE IF IsFinite(a) THEN Sgn(b) > 0
    ELSE IF IsFinite(b) THEN Sgn(a) < 0
    ELSE Sgn(a) <= Sgn(b)

\* f64::max: the other operand when one is NaN
FMax(a, b) ==
    IF IsNaN(a) THEN b
    ELSE IF IsNaN(b) THEN a
    ELSE IF FLe(a, b) THEN b ELSE a

\* ------------------------------------------------------------------ state
VARIABLES
    active,        \* ctx.is_active() of the progress widget
    hot,           \* ctx.is_hot() when the last event was handled
    width,         \* ctx.size().width when the last event was handled
    event,         \* the last event handed to SeekController::event
    wasActive,     \* ctx.is_active() on entry to the last call of event
    submitted,     \* SEEK_TO_FRACTION payloads submitted by the last call
    gestureSeeks,  \* seeks submitted since active last went false -> true
    press,         \* the press that made active go false -> true
    playback,      \* the Playback snapshot handed to the painter
    bounds,        \* ctx.size() of the paint call
    painted,       \* the rectangles filled by the paint call, in order
    pc             \* "idle" before the paint call, "painted" after it

seekVars == <<active, hot, width, event, wasActive, submitted, gestureSeeks, press>>
paintVars == <<playback, bounds, painted, pc>>
vars == <<active, hot, width, event, wasActive, submitted, gestureSeeks, press,
          playback, bounds, painted, pc>>

\* Option<T>: <<>> is None, <<v>> is Some(v)
None == <<>>
Some(v) == <<v>>

\* --------------------------------------------------------- SeekController
Buttons == {"Left", "Right", "Middle"}
OtherKinds == {"MouseMove", "Wheel"}
Xs == -1 .. MaxX
Widths == 0 .. MaxWidth

seek_to_press_pos(x, w) == FDiv(FInt(press[1].x), FInt(w))
\* the payload of the SEEK_TO_FRACTION command submitted for a mouse event
seek_to_mouse_pos(x, w) == FDiv(FInt(x), FInt(w))

\* if mouse_event.button == MouseButton::Left (MouseDown arm)
MouseDownCaptures(b) == b = "Left"

MouseUpReleasesAnyState(b) == b = "Left"
MouseUpReleasesAnyButton(b) == active
\* if ctx.is_active() && mouse_event.button == MouseButton::Left (MouseUp arm)
MouseUpReleases(b) == active /\ b = "Left"

MouseUpSeeksAlways(h) == TRUE
\* if ctx.is_hot() (MouseUp arm)
MouseUpSeeks(h) == h

\* what every call of event records about its arguments and its context
Deliver(kind, b, x, h, w) ==
    /\ event' = [kind |-> kind, button |-> b, x |-> x]
    /\ hot' = h
    /\ width' = w
    /\ wasActive' = active

\* Event::MouseDown; child.event (a Painter) does nothing with the event
MouseDown(b, x, h, w) ==
    /\ Deliver("MouseDown", b, x, h, w)
    /\ submitted' = <<>>
    /\ IF MouseDownCaptures(b)
         THEN /\ active' = TRUE
              /\ IF active
                   THEN UNCHANGED <<gestureSeeks, press>>
                   ELSE /\ gestureSeeks' = 0
                        /\ press' = Some([x |-> x, width |-> w])
         ELSE UNCHANGED <<active, gestureSeeks, press>>
    /\ UNCHANGED paintVars

\* Event::MouseUp
MouseUp(b, x, h, w) ==
    /\ Deliver("MouseUp", b, x, h, w)
    /\ IF MouseUpReleases(b)
         THEN /\ IF MouseUpSeeks(h)
                   THEN /\ submitted' = <<seek_to_mouse_pos(x, w)>>
                        /\ gestureSeeks' = gestureSeeks + 1
                   ELSE /\ submitted' = <<>>
                        /\ UNCHANGED gestureSeeks
              /\ active' = FALSE
         ELSE /\ submitted' = <<>>
              /\ UNCHANGED <<active, gestureSeeks>>
    /\ UNCHANGED press
    /\ UNCHANGED paintVars

\* the `_ => {}` arm: every other event (a move or a wheel event names no
\* button that changed)
OtherEvent(kind, x, h, w) ==
    /\ Deliver(kind, "None", x, h, w)
    /\ submitted' = <<>>
    /\ UNCHANGED <<active, gestureSeeks, press>>
    /\ UNCHANGED paintVars

NoPlayback == [progress |-> None, item |-> None, analysis |-> None]

\* the controller before any event, with no paint call under way
InitSeek ==
    /\ active = FALSE
    /\ hot = FALSE
    /\ width = 0
    /\ event = [kind |-> "None", button |-> "None", x |-> 0]
    /\ wasActive = FALSE
    /\ submitted = <<>>
    /\ gestureSeeks = 0
    /\ press = None
    /\ playback = NoPlayback
    /\ bounds = [width |-> 0, height |-> GRID_HEIGHT]
    /\ painted = <<>>
    /\ pc = "idle"

NextSeek ==
    \E x \in Xs, h \in BOOLEAN, w \in Widths :
        \/ \E b \in Buttons : MouseDown(b, x, h, w)
        \/ \E b \in Buttons : MouseUp(b, x, h, w)
        \/ \E kind \in OtherKinds : OtherEvent(kind, x, h, w)

SpecSeek == InitSeek /\ [][NextSeek]_vars

\* ------------------------------------------------ claims: SeekController
PrimaryRelease == event.kind = "MouseUp" /\ event.button = "Left"
Inside(x, w) == 0 <= x /\ x <= w
InUnit(f) == IsFinite(f) /\ 0 <= f.n /\ f.n <= f.d
\* clamp(f, 0, 1) of f64: NaN stays NaN
Clamp01(f) ==
    IF IsNaN(f) THEN f
    ELSE IF FLe(f, FInt(0)) THEN FInt(0)
    ELSE IF FLe(FInt(1), f) THEN FInt(1)
    ELSE f
\* == of f64: never true of NaN
FEq(a, b) == ~IsNaN(a) /\ ~IsNaN(b) /\ a = b

\* C1: at most one seek request is submitted per gesture (between two
\* consecutive Idle -> Capturing transitions), and none while the button of a
\* gesture is still held, i.e. a press without its release submits nothing.
C1_AtMostOneSeekPerGesture ==
    /\ gestureSeeks <= 1
    /\ active => gestureSeeks = 0

\* a gesture that was released over the widget and submitted its one seek
C1_Witness ==
    /\ PrimaryRelease /\ wasActive /\ ~active
    /\ gestureSeeks = 1 /\ Len(submitted) = 1

\* C2: a primary press inside the bounds followed by a primary release inside
\* the bounds while hot submits exactly one seek whose fraction is
\* releaseX / width clamped to [0,1], whatever the press position was.
C2_GestureCompleteness ==
    (/\ PrimaryRelease /\ wasActive /\ hot
     /\ press # None /\ Inside(press[1].x, press[1].width)
     /\ width > 0 /\ Inside(event.x, width))
        => /\ Len(submitted) = 1
           /\ FEq(submitted[1], Clamp01(FDiv(FInt(event.x), FInt(width))))
           /\ gestureSeeks = 1

\* pressed at x = 0, released at x = 1 on a bar of width 2: fraction 1/2
C2_Witness ==
    /\ PrimaryRelease /\ wasActive /\ hot
    /\ press = Some([x |-> 0, width |-> 2])
    /\ event.x = 1 /\ width = 2
    /\ submitted = <<Norm(1, 2)>>

\* C3: a primary release while Capturing and not hot submits no seek and
\* still returns the controller to Idle.
C3_ReleaseOutsideCancels ==
    (PrimaryRelease /\ wasActive /\ ~hot)
        => (submitted = <<>> /\ ~active /\ gestureSeeks = 0)

\* a gesture that was released away from the widget
C3_Witness ==
    /\ PrimaryRelease /\ wasActive /\ ~hot
    /\ submitted = <<>> /\ ~active

C10_NoSeekDuringDrag ==
    /\ (wasActive /\ ~PrimaryRelease) => (submitted = <<>> /\ active)
    /\ submitted # <<>> => (PrimaryRelease /\ wasActive)

\* a pointer move handled in the middle of a gesture
C10_Witness ==
    /\ wasActive /\ event.kind = "MouseMove"
    /\ active /\ submitted = <<>>

\* ---------------------------------------------------------------- painter
\* a trace of segments of positive duration laid end to end from time 0, one
\* per <<duration, loudness>>
RECURSIVE StartOf(_, _)
StartOf(s, i) == IF i = 1 THEN 0 ELSE StartOf(s, i - 1) + s[i - 1][1]

MkTrace(s) ==
    [i \in 1 .. Len(s) |->
        [start |-> StartOf(s, i), duration |-> s[i][1], loudness_max |-> s[i][2]]]

SegShapes == (1 .. MaxSegDur) \X (-MaxLoud .. MaxLoud)
Traces == {MkTrace(s) : s \in UNION {[1 .. k -> SegShapes] : k \in 0 .. MaxSegs}}

\* Option::map(..).unwrap_or(0.0)
SecsOr0(opt) == IF opt = None THEN 0 ELSE opt[1]

\* AudioAnalysis::get_minmax_loudness: <<min, max>> of loudness_max
get_minmax_loudness(segments) ==
    IF segments = <<>> THEN <<0, 0>>
    ELSE LET L == {segments[i].loudness_max : i \in 1 .. Len(segments)}
         IN  <<CHOOSE m \in L : \A l \in L : m <= l,
               CHOOSE m \in L : \A l \in L : l <= m>>

loudness_frac_signed(l, min_loudness, max_loudness) ==
    FDiv(FInt(l + min_loudness), FInt(max_loudness + min_loudness))
\* (segment.loudness_max + min_loudness.abs()) / (max_loudness + min_loudness.abs())
loudness_frac(l, min_loudness, max_loudness) ==
    FDiv(FInt(l + Abs(min_loudness)), FInt(max_loudness + Abs(min_loudness)))

\* a filled rectangle: Rect::from_origin_size(point, size) and its colour
Fill(x, y, w, h, color) ==
    [x |-> x, y |-> y, width |-> w, height |-> h, color |-> color]

Half(a) == FDiv(a, FInt(2))

\* the fills of paint_progress_with_analysis, one per segment, in order
paint_progress_with_analysis(pb, b) ==
    LET analysis == pb.analysis[1]
        elapsed_time == SecsOr0(pb.progress)
        total_time == SecsOr0(pb.item)
        mm == get_minmax_loudness(analysis)
        rect(segment) ==
            LET start_frac == FDiv(FInt(segment.start), FInt(total_time))
                duration_frac == FDiv(FInt(segment.duration), FInt(total_time))
                frac == loudness_frac(segment.loudness_max, mm[1], mm[2])
                w == FMax(FMul(FInt(b.width), duration_frac),
                          FInt(PROGRESS_MIN_SEGMENT_WIDTH))
                h == FMul(FInt(b.height), frac)
            IN  Fill(FMul(FInt(b.width), start_frac),
                     FSub(Half(FInt(b.height)), Half(h)),
                     w, h,
                     IF segment.start <= elapsed_time THEN "elapsed" ELSE "remaining")
    IN  [i \in 1 .. Len(analysis) |-> rect(analysis[i])]

\* the two fills of paint_progress
paint_progress(pb, b) ==
    LET elapsed_time == SecsOr0(pb.progress)
        total_time == SecsOr0(pb.item)
        elapsed_frac == FDiv(FInt(elapsed_time), FInt(total_time))
        elapsed_width == FMul(FInt(b.width), elapsed_frac)
        remaining_width == FSub(FInt(b.width), elapsed_width)
        \* Size::round rounds the width and the height
        ew == FRound(elapsed_width)
        rw == FRound(remaining_width)
        sh == FRound(FInt(PROGRESS_MIN_SEGMENT_HEIGHT))
        vertical_center ==
            FSub(Half(FInt(b.height)), Half(FInt(PROGRESS_MIN_SEGMENT_HEIGHT)))
    IN  <<Fill(FInt(0), vertical_center, ew, sh, "PRIMARY_DARK"),
          Fill(ew, vertical_center, rw, sh, "PRIMARY_LIGHT")>>

\* the Painter closure of make_volume_analysis
Paint ==
    /\ pc = "idle"
    /\ painted' = IF playback.analysis # None
                    THEN paint_progress_with_analysis(playback, bounds)
                    ELSE paint_progress(playback, bounds)
    /\ pc' = "painted"
    /\ UNCHANGED <<playback, bounds>>
    /\ UNCHANGED seekVars

\* the progress widget exists only while playback.item is some track
\* (make_player), and has the fixed height theme::grid(1.0)
InitPaint ==
    /\ playback \in [progress : {None} \cup {Some(t) : t \in 0 .. MaxTime},
                     item : {Some(t) : t \in 0 .. MaxTime},
                     analysis : {None} \cup {Some(tr) : tr \in Traces}]
    /\ bounds \in [width : 0 .. MaxWidth, height : {GRID_HEIGHT}]
    /\ painted = <<>>
    /\ pc = "idle"
    /\ active = FALSE
    /\ hot = FALSE
    /\ width = 0
    /\ event = [kind |-> "None", button |-> "None", x |-> 0]
    /\ wasActive = FALSE
    /\ submitted = <<>>
    /\ gestureSeeks = 0
    /\ press = None

NextPaint == Paint

SpecPaint == InitPaint /\ [][NextPaint]_vars

\* ------------------------------------------------------- claims: painter
FAdd(a, b) == FSub(a, FSub(FInt(0), b))
Flat == playback.analysis = None
Segments == playback.analysis[1]
MinLoudness == get_minmax_loudness(Segments)[1]
MaxLoudness == get_minmax_loudness(Segments)[2]
TotalSeconds == SecsOr0(playback.item)
ElapsedSeconds == SecsOr0(playback.progress)
FracOf(i) == loudness_frac(Segments[i].loudness_max, MinLoudness, MaxLoudness)

\* C6: in the flat strategy, for an elapsed fraction in [0,1], the widths of
\* the two painted rectangles add up to bounds.width exactly.
C6_WidthConservation ==
    (/\ pc = "painted" /\ Flat
     /\ TotalSeconds > 0 /\ ElapsedSeconds <= TotalSeconds)
        => FEq(FAdd(painted[1].width, painted[2].width), FInt(bounds.width))

\* C7: in the analysis strategy, when minLoudness < maxLoudness every
\* segment's loudnessFraction lies in [0,1], and the height of its rectangle
\* lies in [0, bounds.height].
C7_LoudnessFractionInUnit ==
    (pc = "painted" /\ ~Flat /\ MinLoudness < MaxLoudness)
        => \A i \in 1 .. Len(Segments) :
              /\ InUnit(FracOf(i))
              /\ FLe(FInt(0), painted[i].height)
              /\ FLe(painted[i].height, FInt(bounds.height))

\* a trace of positive loudness values, whose quietest segment gets a
\* fraction strictly between 0 and 1
C7_Witness ==
    /\ pc = "painted" /\ ~Flat /\ 0 < MinLoudness /\ MinLoudness < MaxLoudness
    /\ \E i \in 1 .. Len(Segments) :
          /\ FracOf(i) = Norm(2, 3)
          /\ painted[i].height = Norm(2 * bounds.height, 3)

\* C8: when totalSeconds is 0 the flat strategy paints an elapsed width of 0
\* and a remaining width of bounds.width, and the analysis strategy paints
\* no rectangle at all.
C8_ZeroDurationSafety ==
    (pc = "painted" /\ TotalSeconds = 0)
        => IF Flat
             THEN /\ FEq(painted[1].width, FInt(0))
                  /\ FEq(painted[2].width, FInt(bounds.width))
             ELSE painted = <<>>

\* C9: when minLoudness = maxLoudness every segment's loudnessFraction, and
\* with it the height of its rectangle, is a defined, finite value.
C9_DegenerateLoudnessDefined ==
    (pc = "painted" /\ ~Flat /\ MinLoudness = MaxLoudness)
        => \A i \in 1 .. Len(Segments) :
              IsFinite(FracOf(i)) /\ IsFinite(painted[i].height)

====
